---------------------------- MODULE Spec2Model ----------------------------
(***************************************************************************)
(* Byte-level model of the MP4 box codec of mp4-rust: the HEVC sample      *)
(* entry (hev1 / hvcC), the Opus sample entry (Opus / dOps), the           *)
(* decode-time-offset box (tfdt) and the track container (trak).           *)
(*                                                                         *)
(* A stream is a sequence of bytes (0..255); a reader is a cursor record   *)
(* threaded through the read calls, a writer is the byte sequence that the *)
(* write calls append to (a Vec<u8>).                                      *)
(***************************************************************************)
EXTENDS Integers, Sequences, FiniteSets, TLC

(***************************************************************************)
(* Bounds of the model.                                                    *)
(***************************************************************************)
MaxNals == 2
MaxNalLen == 2
MaxPad == 2
MaxKids == 3
MaxBody == 2

(***************************************************************************)
(* Program constants (mp4box/mod.rs).                                      *)
(***************************************************************************)
HEADER_SIZE == 8
HEADER_EXT_SIZE == 4

VPS_NAL_TYPE == 32
SPS_NAL_TYPE == 33
PPS_NAL_TYPE == 34

(***************************************************************************)
(* Integer helpers: widths, casts, bit operations.                         *)
(***************************************************************************)
\* The one element of a singleton set.  { F(x) : x \in {e} } evaluates e once
\* and binds x to its value.
Only(S) == CHOOSE x \in S : TRUE

RECURSIVE Pow2(_)
Pow2(n) == IF n = 0 THEN 1 ELSE 2 * Pow2(n - 1)

Max(a, b) == IF a >= b THEN a ELSE b
Min(a, b) == IF a <= b THEN a ELSE b

AsU8(n) == n % 256
AsU16(n) == n % 65536

\* Bit i (0 is the lowest) of a.
Bit(a, i) == (a \div Pow2(i)) % 2

RECURSIVE SumBits(_, _)
SumBits(bits, i) == IF i > 7 THEN 0 ELSE bits[i] * Pow2(i) + SumBits(bits, i + 1)

\* a & b and a | b on u8 values.
BitAnd(a, b) == SumBits([i \in 0..7 |-> Bit(a, i) * Bit(b, i)], 0)
BitOr(a, b) == SumBits([i \in 0..7 |-> Max(Bit(a, i), Bit(b, i))], 0)

Shl8(a, k) == AsU8(a * Pow2(k))

(***************************************************************************)
(* Big-endian integer encoding (byteorder::BigEndian).                     *)
(***************************************************************************)
\* Byte k (0 is the lowest) of n.  The values of the model stay below 2^31,
\* so the bytes from the fifth on are 0.
ByteOf(n, k) == IF k >= 4 THEN 0 ELSE (n \div Pow2(8 * k)) % 256

BE(n, w) == [i \in 1..w |-> ByteOf(n, w - i)]

RECURSIVE FromBEUpTo(_, _)
FromBEUpTo(s, k) == IF k = 0 THEN 0 ELSE 256 * FromBEUpTo(s, k - 1) + s[k]

FromBE(s) == Only({ FromBEUpTo(b, Len(b)) : b \in {s} })

\* write_i16 / read_i16: two's complement on 16 bits.
I16ToBits(v) == (v + 65536) % 65536
I16FromBitsUnsigned(u) == u
I16FromBits(u) == IF u >= 32768 THEN u - 65536 ELSE u

Zeros(n) == [i \in 1..n |-> 0]

(***************************************************************************)
(* Box type registry: four-character tags as their four ASCII bytes.       *)
(***************************************************************************)
TagBytes ==
    [ hev1 |-> <<104, 101, 118, 49>>,
      hvcC |-> <<104, 118, 99, 67>>,
      Opus |-> <<79, 112, 117, 115>>,
      dOps |-> <<100, 79, 112, 115>>,
      tfdt |-> <<116, 102, 100, 116>>,
      trak |-> <<116, 114, 97, 107>>,
      tkhd |-> <<116, 107, 104, 100>>,
      edts |-> <<101, 100, 116, 115>>,
      mdia |-> <<109, 100, 105, 97>>,
      udta |-> <<117, 100, 116, 97>>,
      meta |-> <<109, 101, 116, 97>>,
      hdlr |-> <<104, 100, 108, 114>>,
      ilst |-> <<105, 108, 115, 116>>,
      esds |-> <<101, 115, 100, 115>>,
      free |-> <<102, 114, 101, 101>> ]

KnownTags == DOMAIN TagBytes

\* BoxType::from(u32): a registered tag, or UnknownBox.
BoxTypeFrom(bytes) ==
    IF \E t \in KnownTags : TagBytes[t] = bytes
    THEN CHOOSE t \in KnownTags : TagBytes[t] = bytes
    ELSE "unknown"

(***************************************************************************)
(* The reader: a cursor over an in-memory stream (std::io::Cursor).        *)
(*   pos   the stream position                                             *)
(*   ok    FALSE once a call has returned Err (every later call of the     *)
(*         same read_box is skipped, as by the ? operator)                 *)
(*   err   the error returned                                              *)
(*   hw    the highest position reached so far                             *)
(*   rd    the end of the last byte read so far (seeks do not count)       *)
(*   back  TRUE once a seek has moved the position backward                *)
(***************************************************************************)
NewReader(p) ==
    [pos |-> p, ok |-> TRUE, err |-> "", hw |-> p, rd |-> 0, back |-> FALSE]

Fail(r, e) == IF r.ok THEN [r EXCEPT !.ok = FALSE, !.err = e] ELSE r

\* read_exact of n bytes (read_u8, read_u16, ..., read_u64).
ReadExact(buf, r, n) ==
    IF ~r.ok THEN r
    ELSE IF r.pos + n > Len(buf) THEN Fail(r, "io")
    ELSE [r EXCEPT !.pos = r.pos + n, !.hw = Max(r.hw, r.pos + n),
                   !.rd = IF n > 0 THEN Max(r.rd, r.pos + n) ELSE r.rd]

\* The big-endian value of the n bytes at the (0-based) position p.
ValueAt(buf, p, n) ==
    IF p + n <= Len(buf) THEN FromBE(SubSeq(buf, p + 1, p + n)) ELSE 0

\* skip_bytes_to: seek to an absolute offset (which may lie past the end).
SkipBytesTo(r, target) ==
    IF ~r.ok THEN r
    ELSE IF target < 0 THEN Fail(r, "io")
    ELSE [r EXCEPT !.pos = target, !.hw = Max(r.hw, target),
                   !.back = r.back \/ target < r.pos]

\* skip_bytes: seek forward by n bytes relative to the current position.
SkipBytes(r, n) == SkipBytesTo(r, r.pos + n)

\* box_start: the position of the header of the box being read.
BoxStart(r) == r.pos - HEADER_SIZE

(***************************************************************************)
(* A run of fixed-width reads.  fields is a sequence of records            *)
(* [n |-> name, w |-> width, k |-> "read" | "skip"]; the result holds the  *)
(* cursor and the values read, by name ("_" is a discarded value).         *)
(***************************************************************************)
Fld(name, width) == [n |-> name, w |-> width, k |-> "read"]
Skp(width) == [n |-> "_", w |-> width, k |-> "skip"]

RECURSIVE RdFields(_, _, _, _, _)
RdFields(buf, r, fields, i, env) ==
    IF i > Len(fields) \/ ~r.ok THEN [r |-> r, v |-> env]
    ELSE LET f == fields[i]
             r2 == IF f.k = "skip" THEN SkipBytes(r, f.w)
                   ELSE ReadExact(buf, r, f.w)
             env2 == IF f.n = "_" \/ ~r2.ok THEN env
                     ELSE (f.n :> ValueAt(buf, r.pos, f.w)) @@ env
         IN Only({ RdFields(buf, s.r, fields, i + 1, s.v) :
                     s \in {[r |-> r2, v |-> env2]} })

ReadFields(buf, r, fields) == RdFields(buf, r, fields, 1, <<>>)

(***************************************************************************)
(* Box header codec.                                                       *)
(***************************************************************************)
\* size > u32::MAX, written without a literal wider than TLC's integers
ExceedsU32(size) == size \div 65536 >= 65536

\* BoxHeader::new(name, size).write(writer)
BoxHeaderWrite(name, size) ==
    IF ExceedsU32(size)
    THEN BE(1, 4) \o TagBytes[name] \o BE(size, 8)
    ELSE BE(size, 4) \o TagBytes[name]

\* BoxHeader::read(reader): [r, name, size]
BoxHeaderRead(buf, r) ==
    LET r1 == ReadExact(buf, r, 8)
        size32 == ValueAt(buf, r.pos, 4)
        name == IF r1.ok THEN BoxTypeFrom(SubSeq(buf, r.pos + 5, r.pos + 8))
                ELSE "unknown"
    IN IF r1.ok /\ size32 = 1
       THEN [r |-> ReadExact(buf, r1, 8), name |-> name,
             size |-> ValueAt(buf, r1.pos, 8)]
       ELSE [r |-> r1, name |-> name, size |-> size32]

\* read_box_header_ext: (version, flags)
HeaderExtFields == << Fld("version", 1), Fld("flags", 3) >>

\* write_box_header_ext(writer, version, flags)
WriteBoxHeaderExt(version, flags) == BE(version, 1) \o BE(flags, 3)

\* The result of a read_box call.
Ok(r, box) == [ok |-> TRUE, err |-> "", val |-> <<box>>,
               pos |-> r.pos, hw |-> r.hw, rd |-> r.rd, back |-> r.back]
Err(r, e) == [ok |-> FALSE, err |-> e, val |-> <<>>,
              pos |-> r.pos, hw |-> r.hw, rd |-> r.rd, back |-> r.back]

\* The caller's cursor after a nested read_box on the same reader returned.
After(r, result) ==
    [r EXCEPT !.pos = result.pos, !.ok = result.ok, !.err = result.err,
              !.hw = Max(r.hw, result.hw), !.rd = Max(r.rd, result.rd),
              !.back = r.back \/ result.back]

(***************************************************************************)
(* tfdt: the decode-time-offset box.                                       *)
(***************************************************************************)
\* A get_size that counts an 8-byte base_media_decode_time.
TfdtGetSizeU64(b) == HEADER_SIZE + HEADER_EXT_SIZE + 8

TfdtGetSize(b) == HEADER_SIZE + HEADER_EXT_SIZE + 4

TfdtReadBox(buf, p, size) ==
    LET start == BoxStart(NewReader(p))
        Body(f) ==
            LET r1 == SkipBytesTo(f.r, start + size)
            IN IF ~r1.ok THEN Err(r1, r1.err)
               ELSE Ok(r1, [version |-> f.v["version"],
                            flags |-> f.v["flags"],
                            base_media_decode_time |-> f.v["base_media_decode_time"]])
    IN Only({ Body(f) : f \in {ReadFields(buf, NewReader(p),
                 HeaderExtFields \o << Fld("base_media_decode_time", 4) >>)} })


TfdtWriteBox(b) ==
    LET size == TfdtGetSize(b)
    IN [bytes |-> BoxHeaderWrite("tfdt", size)
                  \o WriteBoxHeaderExt(b.version, b.flags)
                  \o BE(b.base_media_decode_time, 4),
        ret |-> size]

(***************************************************************************)
(* FixedPointU16: kept and compared by its raw 32-bit form.                *)
(***************************************************************************)
FixedNew(v) == v * 65536
FixedNewRaw(raw) == raw
FixedRawValue(x) == x

(***************************************************************************)
(* dOps: the Opus codec-configuration box.  An Option is a sequence of     *)
(* length 0 (None) or 1 (Some).                                            *)
(***************************************************************************)
DopsBoxSize(b) == HEADER_SIZE + 11

\* A DopsBox::read_box that does not skip to the end of the region.
DopsReadBoxNoSkip(buf, p, size) ==
    LET Body(f) ==
            IF ~f.r.ok THEN Err(f.r, f.r.err)
            ELSE Ok(f.r, [channel_count |-> f.v["channel_count"],
                          version |-> f.v["version"],
                          pre_skip |-> f.v["pre_skip"],
                          sample_rate |-> f.v["sample_rate"],
                          output_gain |-> I16FromBits(f.v["output_gain"]),
                          channel_mapping_family |-> f.v["channel_mapping_family"],
                          channel_mapping_table |-> <<>>])
    IN Only({ Body(f) : f \in {ReadFields(buf, NewReader(p),
                 << Fld("version", 1), Fld("channel_count", 1), Fld("pre_skip", 2),
                    Fld("sample_rate", 4), Fld("output_gain", 2),
                    Fld("channel_mapping_family", 1) >>)} })

DopsReadBox(buf, p, size) ==
    LET start == BoxStart(NewReader(p))
        end == start + size
        Body(f) ==
            LET r1 == SkipBytesTo(f.r, end)
            IN IF ~r1.ok THEN Err(r1, r1.err)
               ELSE Ok(r1, [channel_count |-> f.v["channel_count"],
                            version |-> f.v["version"],
                            pre_skip |-> f.v["pre_skip"],
                            sample_rate |-> f.v["sample_rate"],
                            output_gain |-> I16FromBits(f.v["output_gain"]),
                            channel_mapping_family |-> f.v["channel_mapping_family"],
                            channel_mapping_table |-> <<>>])
    IN Only({ Body(f) : f \in {ReadFields(buf, NewReader(p),
                 << Fld("version", 1),
                    Fld("channel_count", 1),
                    Fld("pre_skip", 2),
                    Fld("sample_rate", 4),
                    Fld("output_gain", 2),
                    Fld("channel_mapping_family", 1) >>)} })


DopsWriteBox(b) ==
    LET size == DopsBoxSize(b)
    IN [bytes |-> BoxHeaderWrite("dOps", size)
                  \o BE(b.version, 1)
                  \o BE(b.channel_count, 1)
                  \o BE(b.pre_skip, 2)
                  \o BE(b.sample_rate, 4)
                  \o BE(I16ToBits(b.output_gain), 2)
                  \o BE(b.channel_mapping_family, 1),
        ret |-> size]

(***************************************************************************)
(* Opus: the Opus sample entry.                                            *)
(***************************************************************************)
OpusGetSize(b) == HEADER_SIZE + 8 + 20 + DopsBoxSize(b.dops)

OpusReadBox(buf, p, size) ==
    LET start == BoxStart(NewReader(p))
        end == start + size
        Finish(f, dops) ==
            LET r1 == SkipBytesTo(After(f.r, dops), end)
            IN IF ~r1.ok THEN Err(r1, r1.err)
               ELSE Ok(r1, [data_reference_index |-> f.v["data_reference_index"],
                            channelcount |-> f.v["channelcount"],
                            samplesize |-> f.v["samplesize"],
                            samplerate |-> FixedNewRaw(f.v["samplerate"]),
                            dops |-> dops.val[1]])
        \* the header's name is bound to _name and never looked at
        Child(f, header) ==
            IF ~header.r.ok THEN Err(header.r, header.r.err)
            ELSE Only({ Finish(f, dops) :
                          dops \in {DopsReadBox(buf, header.r.pos, header.size)} })
        Body(f) ==
            IF ~f.r.ok THEN Err(f.r, f.r.err)
            ELSE Only({ Child(f, header) : header \in {BoxHeaderRead(buf, f.r)} })
    IN Only({ Body(f) : f \in {ReadFields(buf, NewReader(p),
                 << Fld("_", 4),                        \* reserved
                    Fld("_", 2),                        \* reserved
                    Fld("data_reference_index", 2),
                    Fld("_", 2),                        \* _version
                    Fld("_", 2),                        \* reserved
                    Fld("_", 4),                        \* reserved
                    Fld("channelcount", 2),
                    Fld("samplesize", 2),
                    Fld("_", 4),                        \* pre-defined, reserved
                    Fld("samplerate", 4) >>)} })


OpusWriteBox(b) ==
    LET size == OpusGetSize(b)
    IN [bytes |-> BoxHeaderWrite("Opus", size)
                  \o BE(0, 4)                           \* reserved
                  \o BE(0, 2)                           \* reserved
                  \o BE(b.data_reference_index, 2)
                  \o BE(0, 8)                           \* reserved
                  \o BE(b.channelcount, 2)
                  \o BE(b.samplesize, 2)
                  \o BE(0, 4)                           \* reserved
                  \o BE(FixedRawValue(b.samplerate), 4)
                  \o DopsWriteBox(b.dops).bytes,
        ret |-> size]

(***************************************************************************)
(* NalUnit: a 2-byte big-endian length and that many bytes.                *)
(***************************************************************************)
NalSize(n) == 2 + Len(n.bytes)

\* NalUnit::read: [r, nal].  `reader.read(&mut bytes)` copies what the
\* stream still holds, at most `length` bytes, into a zero-filled buffer of
\* `length` bytes, and is not an error when the stream holds fewer.
NalRead(buf, r) ==
    LET r1 == ReadExact(buf, r, 2)
        length == ValueAt(buf, r.pos, 2)
        got == Min(length, Max(Len(buf) - r1.pos, 0))
    IN IF ~r1.ok THEN [r |-> r1, nal |-> [bytes |-> <<>>]]
       ELSE [r |-> [r1 EXCEPT !.pos = r1.pos + got,
                              !.hw = Max(r1.hw, r1.pos + got),
                              !.rd = Max(r1.rd, r1.pos + got)],
             nal |-> [bytes |-> SubSeq(buf, r1.pos + 1, r1.pos + got)
                                \o Zeros(length - got)]]


\* A NalUnit::write that leaves out the length prefix.
NalWriteNoLength(n) == n.bytes

\* NalUnit::write
NalWrite(n) == BE(AsU16(Len(n.bytes)), 2) \o n.bytes

\* One iteration of `for _ in 0..count { push(NalUnit::read(reader)?) }`.
NalReadStep(buf, st) ==
    IF ~st.r.ok THEN st
    ELSE Only({ [r |-> n.r,
                 nals |-> IF n.r.ok THEN Append(st.nals, n.nal) ELSE st.nals] :
                  n \in {NalRead(buf, st.r)} })

\* count iterations from the state st = [r, nals]: the first count \div 2 of
\* them, then the others.
RECURSIVE NalReadTimes(_, _, _)
NalReadTimes(buf, st, count) ==
    IF count = 0 THEN st
    ELSE IF count = 1 THEN NalReadStep(buf, st)
    ELSE Only({ NalReadTimes(buf, mid, count - count \div 2) :
                  mid \in {NalReadTimes(buf, st, count \div 2)} })

NalReadLoop(buf, r, count, acc) ==
    Only({ NalReadTimes(buf, st, count) : st \in {[r |-> r, nals |-> acc]} })


\* for nal in array.iter() { nal.write(writer)? }
RECURSIVE NalWriteLoop(_)
NalWriteLoop(nals) ==
    IF Len(nals) = 0 THEN <<>>
    ELSE Only({ NalWrite(nals[1]) \o NalWriteLoop(t) : t \in {Tail(nals)} })


RECURSIVE NalSizeSum(_)
NalSizeSum(nals) ==
    IF Len(nals) = 0 THEN 0
    ELSE Only({ NalSize(nals[1]) + NalSizeSum(t) : t \in {Tail(nals)} })


(***************************************************************************)
(* hvcC: the HEVC codec-configuration box.                                 *)
(***************************************************************************)
HvcCBoxSize(b) ==
    HEADER_SIZE + 32
        + NalSizeSum(b.video_parameter_sets)
        + NalSizeSum(b.sequence_parameter_sets)
        + NalSizeSum(b.picture_parameter_sets)

\* let num_of_vpss = reader.read_u8()?
NumOfVpss(byte) == byte
\* A sequence-parameter-set count used as read.
NumOfSpssUnmasked(byte) == byte
\* let num_of_spss = reader.read_u8()? & 0x1F
NumOfSpss(byte) == BitAnd(byte, 31)
\* let num_of_ppss = reader.read_u8()?
NumOfPpss(byte) == byte

HvcCReadBox(buf, p, size) ==
    LET start == BoxStart(NewReader(p))
        Finish(f, vps, sps, pps) ==
            LET r1 == SkipBytesTo(pps.r, start + size)
            IN IF ~r1.ok THEN Err(r1, r1.err)
               ELSE Ok(r1, [configuration_version |-> f.v["configuration_version"],
                            video_parameter_sets |-> vps.nals,
                            sequence_parameter_sets |-> sps.nals,
                            picture_parameter_sets |-> pps.nals])
        Pps(f, vps, sps, c) ==
            IF ~c.r.ok THEN Err(c.r, c.r.err)
            ELSE Only({ Finish(f, vps, sps, pps) :
                          pps \in {NalReadLoop(buf, c.r, NumOfPpss(c.v["n"]), <<>>)} })
        Sps(f, vps, c) ==
            IF ~c.r.ok THEN Err(c.r, c.r.err)
            ELSE Only({ Only({ Pps(f, vps, sps, c2) :
                                 c2 \in {ReadFields(buf, sps.r, << Fld("n", 1) >>)} }) :
                          sps \in {NalReadLoop(buf, c.r, NumOfSpss(c.v["n"]), <<>>)} })
        Vps(f, c) ==
            IF ~c.r.ok THEN Err(c.r, c.r.err)
            ELSE Only({ Only({ Sps(f, vps, c2) :
                                 c2 \in {ReadFields(buf, vps.r, << Fld("n", 1) >>)} }) :
                          vps \in {NalReadLoop(buf, c.r, NumOfVpss(c.v["n"]), <<>>)} })
        Body(f) ==
            Only({ Vps(f, c) : c \in {ReadFields(buf, f.r, << Fld("n", 1) >>)} })
    IN Only({ Body(f) : f \in {ReadFields(buf, NewReader(p),
                 << Fld("configuration_version", 1),
                    Fld("_", 1),
                    Fld("_", 4),
                    Fld("_", 6),
                    Fld("_", 1),
                    Fld("_", 2),
                    Fld("_", 1),
                    Fld("_", 1),
                    Fld("_", 1),                        \* bitDepthLumaMinus8
                    Fld("_", 1),                        \* bitDepthChromaMinus8
                    Fld("_", 2),
                    Fld("_", 1),
                    Fld("_", 1) >>)} })                 \* numArrays


HvcCWriteBox(b) ==
    LET size == HvcCBoxSize(b)
        array_completeness == 1
    IN [bytes |-> BoxHeaderWrite("hvcC", size)
                  \o BE(b.configuration_version, 1)
                  \o BE(0, 1)
                  \o BE(0, 4)
                  \o BE(0, 6)
                  \o BE(0, 1)
                  \o BE(61440, 2)                       \* 0xf000
                  \o BE(BitOr(252, 0), 1)               \* 0xfc | 0
                  \o BE(BitOr(252, 0), 1)               \* 0xfc | 0
                  \o BE(BitOr(2, 248), 1)               \* 2 | 0xf8
                  \o BE(BitOr(2, 248), 1)               \* 2 | 0xf8
                  \o BE(0, 2)
                  \o BE(BitOr(BitOr(BitOr(Shl8(0, 6), Shl8(1, 3)), Shl8(1, 2)), 3), 1)
                  \o BE(3, 1)                           \* numArrays
                  \o BE(BitOr(Shl8(array_completeness, 7), BitAnd(VPS_NAL_TYPE, 63)), 1)
                  \o BE(AsU16(Len(b.video_parameter_sets)), 2)
                  \o NalWriteLoop(b.video_parameter_sets)
                  \o BE(BitOr(Shl8(array_completeness, 7), BitAnd(SPS_NAL_TYPE, 63)), 1)
                  \o BE(AsU16(Len(b.sequence_parameter_sets)), 2)
                  \o NalWriteLoop(b.sequence_parameter_sets)
                  \o BE(BitOr(Shl8(array_completeness, 7), BitAnd(PPS_NAL_TYPE, 63)), 1)
                  \o BE(AsU16(Len(b.picture_parameter_sets)), 2)
                  \o NalWriteLoop(b.picture_parameter_sets),
        ret |-> size]

(***************************************************************************)
(* hev1: the HEVC sample entry.                                            *)
(***************************************************************************)
Hev1GetSize(b) == HEADER_SIZE + 8 + 70 + HvcCBoxSize(b.hvcc)

Hev1ReadBox(buf, p, size) ==
    LET start == BoxStart(NewReader(p))
        Finish(f, hvcc) ==
            LET r1 == SkipBytesTo(After(f.r, hvcc), start + size)
            IN IF ~r1.ok THEN Err(r1, r1.err)
               ELSE Ok(r1, [data_reference_index |-> f.v["data_reference_index"],
                            width |-> f.v["width"],
                            height |-> f.v["height"],
                            horizresolution |-> FixedNewRaw(f.v["horizresolution"]),
                            vertresolution |-> FixedNewRaw(f.v["vertresolution"]),
                            frame_count |-> f.v["frame_count"],
                            depth |-> f.v["depth"],
                            hvcc |-> hvcc.val[1]])
        Child(f, header) ==
            IF ~header.r.ok THEN Err(header.r, header.r.err)
            ELSE IF header.name = "hvcC"
            THEN Only({ Finish(f, hvcc) :
                          hvcc \in {HvcCReadBox(buf, header.r.pos, header.size)} })
            ELSE Err(header.r, "InvalidData: hvcc not found")
        Body(f) ==
            IF ~f.r.ok THEN Err(f.r, f.r.err)
            ELSE Only({ Child(f, header) : header \in {BoxHeaderRead(buf, f.r)} })
    IN Only({ Body(f) : f \in {ReadFields(buf, NewReader(p),
                 << Fld("_", 4),                        \* reserved
                    Fld("_", 2),                        \* reserved
                    Fld("data_reference_index", 2),
                    Fld("_", 4),                        \* pre-defined, reserved
                    Fld("_", 8),                        \* pre-defined
                    Fld("_", 4),                        \* pre-defined
                    Fld("width", 2),
                    Fld("height", 2),
                    Fld("horizresolution", 4),
                    Fld("vertresolution", 4),
                    Fld("_", 4),                        \* reserved
                    Fld("frame_count", 2),
                    Skp(32),                            \* compressorname
                    Fld("depth", 2),
                    Fld("_", 2) >>)} })                 \* pre-defined


Hev1WriteBox(b) ==
    LET size == Hev1GetSize(b)
    IN [bytes |-> BoxHeaderWrite("hev1", size)
                  \o BE(0, 4)                           \* reserved
                  \o BE(0, 2)                           \* reserved
                  \o BE(b.data_reference_index, 2)
                  \o BE(0, 4)                           \* pre-defined, reserved
                  \o BE(0, 8)                           \* pre-defined
                  \o BE(0, 4)                           \* pre-defined
                  \o BE(b.width, 2)
                  \o BE(b.height, 2)
                  \o BE(FixedRawValue(b.horizresolution), 4)
                  \o BE(FixedRawValue(b.vertresolution), 4)
                  \o BE(0, 4)                           \* reserved
                  \o BE(b.frame_count, 2)
                  \o Zeros(32)                          \* compressorname
                  \o BE(b.depth, 2)
                  \o BE(I16ToBits(-1), 2)               \* pre-defined
                  \o HvcCWriteBox(b.hvcc).bytes,
        ret |-> size]

(***************************************************************************)
(* trak: the track container.                                              *)
(***************************************************************************)
\* skip_box: seek to the header start of the box plus its declared size.
SkipBox(r, size) == SkipBytesTo(r, BoxStart(r) + size)

\* TkhdBox / EdtsBox / MdiaBox::read_box, by the box contract: the body of
\* the declared size is consumed, the value is that body, and the cursor is
\* left at box start + declared size.
ChildReadBox(buf, p, size) ==
    LET r0 == NewReader(p)
        start == BoxStart(r0)
        r1 == ReadExact(buf, r0, Max(size - HEADER_SIZE, 0))
        r2 == SkipBytesTo(r1, start + size)
    IN IF ~r2.ok THEN Err(r2, r2.err)
       ELSE Ok(r2, [body |-> SubSeq(buf, p + 1, p + Max(size - HEADER_SIZE, 0))])

\* An arm `_ =>` that skips one byte beyond the child.
TrakSkipUnknownBeyond(r, s) == SkipBox(r, s + 1)

\* _ => { skip_box(reader, s)?; }
TrakSkipUnknown(r, s) == SkipBox(r, s)

\* let start = box_start(reader)?; ... let end = start + size;
TrakEnter(p, size) ==
    [start |-> BoxStart(NewReader(p)),
     end |-> BoxStart(NewReader(p)) + size,
     current |-> p,
     tkhd |-> <<>>, edts |-> <<>>, mdia |-> <<>>,
     r |-> NewReader(p),
     trace |-> <<>>]

\* The record of an iteration added to the trace; an iteration that repeats
\* the one before it (same child header, same cursor) is recorded once.
Log(trace, rec) ==
    IF Len(trace) > 0 /\ trace[Len(trace)] = rec THEN trace
    ELSE Append(trace, rec)

\* One iteration of `while current < end`: the child header is read, the
\* child is read into its slot or skipped, and current is set to the stream
\* position.  trace records, per child header read, its tag, its start, its
\* declared size, the position after the iteration and the end of the last
\* byte read.
TrakIterate(buf, w) ==
    LET Store(header, child) ==
            LET r2 == After(header.r, child)
            IN [w EXCEPT
                  !.r = r2,
                  !.tkhd = IF header.name = "tkhd" /\ child.ok THEN child.val ELSE @,
                  !.edts = IF header.name = "edts" /\ child.ok THEN child.val ELSE @,
                  !.mdia = IF header.name = "mdia" /\ child.ok THEN child.val ELSE @,
                  !.current = IF r2.ok THEN r2.pos ELSE @,
                  !.trace = Log(@, [name |-> header.name,
                                    at |-> BoxStart(header.r),
                                    size |-> header.size,
                                    after |-> r2.pos,
                                    rd |-> r2.rd])]
        Skip(header) ==
            Only({ [w EXCEPT
                      !.r = r2,
                      !.current = IF r2.ok THEN r2.pos ELSE @,
                      !.trace = Log(@, [name |-> header.name,
                                        at |-> BoxStart(header.r),
                                        size |-> header.size,
                                        after |-> r2.pos,
                                        rd |-> r2.rd])] :
                     r2 \in {TrakSkipUnknown(header.r, header.size)} })
        Match(header) ==
            IF ~header.r.ok THEN [w EXCEPT !.r = header.r]
            ELSE IF header.name \in {"tkhd", "edts", "mdia"}
            THEN Only({ Store(header, child) :
                          child \in {ChildReadBox(buf, header.r.pos, header.size)} })
            ELSE Skip(header)
    IN Only({ Match(header) : header \in {BoxHeaderRead(buf, w.r)} })

\* The code after the loop with the two checks in the other order.
TrakFinishMdiaFirst(w) ==
    IF ~w.r.ok THEN Err(w.r, w.r.err)
    ELSE IF w.mdia = <<>> THEN Err(w.r, "BoxNotFound(MdiaBox)")
    ELSE IF w.tkhd = <<>> THEN Err(w.r, "BoxNotFound(TkhdBox)")
    ELSE LET r1 == SkipBytesTo(w.r, w.end)
         IN IF ~r1.ok THEN Err(r1, r1.err)
            ELSE Ok(r1, [tkhd |-> w.tkhd[1], edts |-> w.edts, mdia |-> w.mdia[1]])

\* The code after the loop.
TrakFinish(w) ==
    IF ~w.r.ok THEN Err(w.r, w.r.err)
    ELSE IF w.tkhd = <<>> THEN Err(w.r, "BoxNotFound(TkhdBox)")
    ELSE IF w.mdia = <<>> THEN Err(w.r, "BoxNotFound(MdiaBox)")
    ELSE LET r1 == SkipBytesTo(w.r, w.end)
         IN IF ~r1.ok THEN Err(r1, r1.err)
            ELSE Ok(r1, [tkhd |-> w.tkhd[1], edts |-> w.edts, mdia |-> w.mdia[1]])

\* The loop, for at most fuel iterations.
RECURSIVE TrakLoop(_, _, _)
TrakLoop(buf, w, fuel) ==
    IF ~w.r.ok \/ ~(w.current < w.end) THEN w
    ELSE IF fuel = 0 THEN [w EXCEPT !.r = Fail(w.r, "no end")]
    ELSE Only({ TrakLoop(buf, w2, fuel - 1) : w2 \in {TrakIterate(buf, w)} })

\* TrakBox::read_box, for streams on which the loop ends within Len(buf) + 1
\* iterations.
TrakReadBox(buf, p, size) ==
    Only({ TrakFinish(w) : w \in {TrakLoop(buf, TrakEnter(p, size), Len(buf) + 1)} })

\* TkhdBox / EdtsBox / MdiaBox::box_size, by the box contract: the header and
\* the body.
ChildBoxSize(c) == HEADER_SIZE + Len(c.body)

\* TkhdBox / EdtsBox / MdiaBox::write_box, by the box contract: box_size()
\* bytes are written, the header and the body.
ChildWriteBox(tag, c) ==
    [bytes |-> BoxHeaderWrite(tag, ChildBoxSize(c)) \o c.body,
     ret |-> ChildBoxSize(c)]

\* HdlrBox::write_box: header, version/flags, the two four-character codes,
\* 12 reserved bytes, the name and its terminating zero.
HdlrWriteBox(h) ==
    LET size == HEADER_SIZE + HEADER_EXT_SIZE + 20 + Len(h.name) + 1
    IN [bytes |-> BoxHeaderWrite("hdlr", size)
                  \o WriteBoxHeaderExt(h.version, h.flags)
                  \o h.handler_what \o h.handler_type
                  \o Zeros(12) \o h.name \o <<0>>,
        ret |-> size]

\* A TrakBox::get_size that leaves out the edit-list child.
TrakGetSizeNoEdts(b) ==
    HEADER_SIZE + ChildBoxSize(b.tkhd) + ChildBoxSize(b.mdia) + 61

\* TrakBox::get_size
TrakGetSize(b) ==
    HEADER_SIZE
    + ChildBoxSize(b.tkhd)
    + (IF b.edts # <<>> THEN ChildBoxSize(b.edts[1]) ELSE 0)
    + ChildBoxSize(b.mdia)
    + 61

\* TrakBox::write_box
TrakWriteBox(b) ==
    LET size == TrakGetSize(b)
        udta_size == 53
        meta_size == 41
        hdlr == [version |-> 0, flags |-> 0,
                 handler_what |-> <<109, 104, 108, 114>>,     \* "mhlr"
                 handler_type |-> <<109, 100, 105, 114>>,     \* "mdir"
                 name |-> <<>>]
    IN [bytes |-> BoxHeaderWrite("trak", size)
                  \o ChildWriteBox("tkhd", b.tkhd).bytes
                  \o (IF b.edts # <<>> THEN ChildWriteBox("edts", b.edts[1]).bytes
                      ELSE <<>>)
                  \o ChildWriteBox("mdia", b.mdia).bytes
                  \o BoxHeaderWrite("udta", HEADER_SIZE + udta_size)
                  \o BoxHeaderWrite("meta", HEADER_SIZE + HEADER_EXT_SIZE + meta_size)
                  \o WriteBoxHeaderExt(0, 0)
                  \o HdlrWriteBox(hdlr).bytes
                  \o BoxHeaderWrite("ilst", HEADER_SIZE),
        ret |-> size]


(***************************************************************************)
(* Input domains: the box values written, and the streams read.            *)
(***************************************************************************)
\* A NAL unit of the given length whose bytes differ by array, index and place.
NalOf(tag, j, len) == [bytes |-> [i \in 1..len |-> (tag + 16 * j + i) % 256]]

\* An array of n NAL units of lengths (j + shift) mod (MaxNalLen + 1).
ArrayOf(tag, n, shift) ==
    [j \in 1..n |-> NalOf(tag, j, (j + shift) % (MaxNalLen + 1))]

HvcCBoxes ==
    { [configuration_version |-> cv,
       sequence_parameter_sets |-> ArrayOf(66, ns, sh),
       picture_parameter_sets |-> ArrayOf(68, np, sh),
       video_parameter_sets |-> ArrayOf(64, nv, sh)] :
        cv \in {0, 1}, ns \in 0..MaxNals, np \in 0..MaxNals, nv \in 0..MaxNals,
        sh \in 0..MaxNalLen }

Hev1Scalars ==
    { [data_reference_index |-> 1, width |-> 320, height |-> 240,
       horizresolution |-> FixedNew(72), vertresolution |-> FixedNew(72),
       frame_count |-> 1, depth |-> 24],
      [data_reference_index |-> 65535, width |-> 0, height |-> 258,
       horizresolution |-> 2147483647, vertresolution |-> 1,
       frame_count |-> 0, depth |-> 65535] }

Hev1Of(s, h) ==
    [data_reference_index |-> s.data_reference_index,
     width |-> s.width, height |-> s.height,
     horizresolution |-> s.horizresolution,
     vertresolution |-> s.vertresolution,
     frame_count |-> s.frame_count, depth |-> s.depth,
     hvcc |-> h]

Hev1Boxes ==
    { Hev1Of(s, h) : s \in Hev1Scalars,
                     h \in {x \in HvcCBoxes : x.configuration_version = 1} }

ChannelMappingTables ==
    { <<>>, << [stream_count |-> 1, coupled_count |-> 1,
                channel_mapping |-> <<0, 1>>] >> }

DopsBoxes ==
    { [version |-> 0, channel_count |-> cc, pre_skip |-> ps,
       sample_rate |-> 48000, output_gain |-> g,
       channel_mapping_family |-> fam, channel_mapping_table |-> t] :
        cc \in {2, 255}, ps \in {312}, g \in {0, -1, -32768, 32767},
        fam \in {0, 1}, t \in ChannelMappingTables }

OpusScalars ==
    { [data_reference_index |-> 1, channelcount |-> 2, samplesize |-> 16,
       samplerate |-> FixedNew(24000)],
      [data_reference_index |-> 65535, channelcount |-> 258, samplesize |-> 0,
       samplerate |-> 2147483647] }

OpusBoxes ==
    { [data_reference_index |-> s.data_reference_index,
       channelcount |-> s.channelcount, samplesize |-> s.samplesize,
       samplerate |-> s.samplerate, dops |-> d] :
        s \in OpusScalars, d \in DopsBoxes }

TfdtBoxes ==
    { [version |-> v, flags |-> f, base_media_decode_time |-> t] :
        v \in {0, 1}, f \in {0, 1, 16777215, 16777216},
        t \in {0, 6000, 2147483647} }

\* A child box value: a body of len bytes that differ by child and place.
ChildOf(tag, len) == [body |-> [i \in 1..len |-> tag + i]]

TrakBoxes ==
    { [tkhd |-> ChildOf(50, t), edts |-> e, mdia |-> ChildOf(70, m)] :
        t \in {0, MaxBody}, m \in {0, MaxBody},
        e \in {<<>>} \cup { <<ChildOf(60, n)>> : n \in {0, 1, MaxBody + 1} } }

(***************************************************************************)
(* State.                                                                  *)
(*   pc      "idle": nothing written; "written": the stream is complete;  *)
(*           "ready": the box header has been read; "walk": TrakBox's      *)
(*           read_box is at the head of its loop; "done": read_box has     *)
(*           returned                                                      *)
(*   kind    the type of the box at the start of the stream                *)
(*   src     the box value the stream was written from (<<>> if none)      *)
(*   buf     the stream                                                    *)
(*   wret    the value write_box returned                                  *)
(*   craft   how the stream was made: "written" by write_box alone,        *)
(*           "retag" with the nested header's tag replaced, "layout" laid  *)
(*           out byte by byte, "resized" with a child header of a trak     *)
(*           declaring another size, "truncated" ending inside a NAL unit  *)
(*   redecl  TRUE when the header's size field was overwritten             *)
(*   note    the parameters a "layout" stream was laid out from            *)
(*   pos     the stream position between the calls                         *)
(*   hdr     the header read by BoxHeader::read                            *)
(*   res     the result of read_box                                        *)
(*   kids    the child boxes a "layout" trak stream was laid out from      *)
(*   walk    the locals of TrakBox::read_box while it runs ("walk")        *)
(***************************************************************************)
VARIABLES pc, kind, src, buf, wret, craft, redecl, note, pos, hdr, res,
          kids, walk

vars == <<pc, kind, src, buf, wret, craft, redecl, note, pos, hdr, res,
          kids, walk>>

NoHeader == [name |-> "", size |-> 0]
NoResult == [ok |-> FALSE, err |-> "", val |-> <<>>, pos |-> 0, hw |-> 0,
             rd |-> 0, back |-> FALSE]
NoNote == [cv |-> 0, hi |-> 0, ns |-> 0, cp |-> 0, len |-> 0, sweep |-> FALSE]

Init ==
    /\ pc = "idle"
    /\ kind = ""
    /\ src = <<>>
    /\ buf = <<>>
    /\ wret = 0
    /\ craft = ""
    /\ redecl = FALSE
    /\ note = NoNote
    /\ pos = 0
    /\ hdr = NoHeader
    /\ res = NoResult
    /\ kids = <<>>
    /\ walk = TrakEnter(HEADER_SIZE, 0)

\* let mut buf = Vec::new(); src_box.write_box(&mut buf)
Emit(k, b, w) ==
    /\ pc = "idle"
    /\ pc' = "written"
    /\ kind' = k
    /\ src' = <<b>>
    /\ buf' = w.bytes
    /\ wret' = w.ret
    /\ craft' = "written"
    /\ UNCHANGED <<kids, walk, redecl, note, pos, hdr, res>>

WriteHev1 == \E b \in Hev1Boxes : Emit("hev1", b, Hev1WriteBox(b))
WriteHvcC == \E b \in HvcCBoxes : Emit("hvcC", b, HvcCWriteBox(b))
WriteOpus == \E b \in OpusBoxes : Emit("Opus", b, OpusWriteBox(b))
WriteDops == \E b \in DopsBoxes : Emit("dOps", b, DopsWriteBox(b))
WriteTfdt == \E b \in TfdtBoxes : Emit("tfdt", b, TfdtWriteBox(b))
WriteTrak == \E b \in TrakBoxes : Emit("trak", b, TrakWriteBox(b))

\* The offset of the nested box header in a sample entry.
ChildOffset(k) == IF k = "hev1" THEN HEADER_SIZE + 8 + 70 ELSE HEADER_SIZE + 8 + 20

\* n NAL unit records, each a 2-byte length len and len bytes.
NalRecords(n, len) ==
    [i \in 1..(n * (2 + len)) |->
        LET k == (i - 1) % (2 + len)
        IN IF k = 0 THEN 0 ELSE IF k = 1 THEN len ELSE (i + len) % 256]

\* The parameters of the hvcC bodies laid out in the order read_box reads
\* them: cv video-parameter sets, a sequence-parameter-set count byte with
\* the high bits hi and the low bits ns followed by ns sets, cp
\* picture-parameter sets, every NAL unit of len bytes.
HvcCLayouts ==
    { [cv |-> cv, hi |-> hi, ns |-> ns, cp |-> cp, len |-> len, sweep |-> FALSE] :
        cv \in 0..MaxNals, hi \in {0, 7}, ns \in 0..MaxNals, cp \in 0..MaxNals,
        len \in {0, MaxNalLen} }
    \cup { [cv |-> cv, hi |-> 0, ns |-> 1, cp |-> 1, len |-> 1, sweep |-> TRUE] :
             cv \in 0..255 }
    \cup { [cv |-> 1, hi |-> hi, ns |-> ns, cp |-> 1, len |-> 1, sweep |-> TRUE] :
             hi \in 0..7, ns \in 0..31 }
    \cup { [cv |-> 1, hi |-> 0, ns |-> 1, cp |-> cp, len |-> 1, sweep |-> TRUE] :
             cp \in 0..255 }

HvcCLayoutBody(n) ==
    <<1>> \o Zeros(21) \o <<3>>
    \o <<n.cv>> \o NalRecords(n.cv, n.len)
    \o <<32 * n.hi + n.ns>> \o NalRecords(n.ns, n.len)
    \o <<n.cp>> \o NalRecords(n.cp, n.len)

\* An hvcC box as a stream laid out for HvcCBox::read_box.
LayoutHvcC ==
    /\ pc = "idle"
    /\ \E n \in HvcCLayouts :
         /\ note' = n
         /\ buf' = Only({ BoxHeaderWrite("hvcC", HEADER_SIZE + Len(body)) \o body :
                            body \in {HvcCLayoutBody(n)} })
    /\ pc' = "written"
    /\ kind' = "hvcC"
    /\ craft' = "layout"
    /\ UNCHANGED <<kids, walk, src, wret, redecl, pos, hdr, res>>

\* The same hvcC box nested in an hev1 sample entry.
WrapHev1 ==
    /\ pc = "written"
    /\ kind = "hvcC"
    /\ craft = "layout"
    /\ ~redecl
    /\ ~note.sweep
    /\ \E s \in Hev1Scalars :
         buf' = BE(ChildOffset("hev1") + Len(buf), 4)
                \o SubSeq(Hev1WriteBox(Hev1Of(s, Only(HvcCBoxes))).bytes,
                          5, ChildOffset("hev1"))
                \o buf
    /\ kind' = "hev1"
    /\ UNCHANGED <<kids, walk, pc, src, wret, craft, redecl, note, pos, hdr, res>>

\* The child boxes of a trak region: up to MaxKids boxes, each with a body
\* of blen bytes and a header that declares 8 + blen.
TrakTags == {"tkhd", "edts", "mdia", "udta"}

TrakRegions ==
    { [j \in 1..n |-> [tag |-> t[j],
                       body |-> [i \in 1..blen |-> 40 + 10 * j + i],
                       size |-> HEADER_SIZE + blen]] :
        <<n, t, blen>> \in
          { <<n, t, blen>> \in
              (0..MaxKids) \X (UNION { [1..m -> TrakTags] : m \in 0..MaxKids })
                          \X {0, MaxBody} : Len(t) = n } }

\* The bytes of a sequence of child boxes.
RECURSIVE KidsBytes(_, _)
KidsBytes(ks, k) ==
    IF k = 0 THEN <<>>
    ELSE KidsBytes(ks, k - 1) \o BE(ks[k].size, 4) \o TagBytes[ks[k].tag]
         \o ks[k].body

\* The stream of a trak box with the given children.
TrakStream(ks) ==
    Only({ BE(HEADER_SIZE + Len(region), 4) \o TagBytes["trak"] \o region :
             region \in {KidsBytes(ks, Len(ks))} })

\* A trak box as a stream of child boxes.
LayoutTrak ==
    /\ pc = "idle"
    /\ \E ks \in TrakRegions :
         /\ kids' = ks
         /\ buf' = TrakStream(ks)
    /\ pc' = "written"
    /\ kind' = "trak"
    /\ craft' = "layout"
    /\ UNCHANGED <<walk, src, wret, redecl, note, pos, hdr, res>>

\* A trak region in which one child header declares another size than the
\* child has: 0, a size below the header size, or a size beyond the child.
Resize ==
    /\ pc = "written"
    /\ kind = "trak"
    /\ craft = "layout"
    /\ ~redecl
    /\ \E j \in 1..Len(kids) :
         \E s \in {0, HEADER_SIZE - 1, kids[j].size + MaxPad} :
            /\ kids' = [kids EXCEPT ![j].size = s]
            /\ buf' = TrakStream([kids EXCEPT ![j].size = s])
    /\ craft' = "resized"
    /\ UNCHANGED <<walk, pc, kind, src, wret, redecl, note, pos, hdr, res>>

\* An input whose header declares another size than the box written, with
\* or without bytes following the box.
Redeclare ==
    /\ pc = "written"
    /\ craft \in {"written", "layout"}
    /\ ~redecl
    /\ ~note.sweep
    /\ LET n == ValueAt(buf, 0, 4)
       IN \E d \in { <<HEADER_SIZE, 0>>, <<n - 1, 0>>, <<n + MaxPad, 0>>, <<n + MaxPad, MaxPad>> } :
            buf' = BE(d[1], 4) \o SubSeq(buf, 5, Len(buf)) \o [i \in 1..d[2] |-> 238]
    /\ redecl' = TRUE
    /\ UNCHANGED <<kids, walk, pc, kind, src, wret, craft, note, pos, hdr, res>>

\* An hvcC or hev1 stream that ends inside the payload of one of its
\* picture-parameter-set NAL units (the last, or the one before it): the last
\* k bytes are missing.  The headers declare the size of the whole box, or,
\* with fit, the size of what is left of it.
Truncate ==
    /\ pc = "written"
    /\ kind \in {"hvcC", "hev1"}
    /\ craft = "layout"
    /\ ~redecl
    /\ ~note.sweep
    /\ note.len >= 1
    /\ \E q \in 0..(note.cp - 1), d \in 1..note.len, fit \in BOOLEAN :
         LET k == q * (2 + note.len) + d
             cut == SubSeq(buf, 1, Len(buf) - k)
             at == IF kind = "hev1" THEN ChildOffset("hev1") ELSE 0
         IN buf' = IF ~fit THEN cut
                   ELSE IF kind = "hvcC"
                   THEN BE(Len(cut), 4) \o SubSeq(cut, 5, Len(cut))
                   ELSE BE(Len(cut), 4) \o SubSeq(cut, 5, at)
                        \o BE(Len(cut) - at, 4) \o SubSeq(cut, at + 5, Len(cut))
    /\ craft' = "truncated"
    /\ UNCHANGED <<kids, walk, pc, kind, src, wret, redecl, note, pos, hdr, res>>

\* An input whose nested configuration box carries another tag.
Retag ==
    /\ pc = "written"
    /\ craft = "written"
    /\ ~redecl
    /\ kind \in {"hev1", "Opus"}
    /\ \E t \in {"esds", "free"} :
         buf' = SubSeq(buf, 1, ChildOffset(kind) + 4) \o TagBytes[t]
                \o SubSeq(buf, ChildOffset(kind) + 9, Len(buf))
    /\ craft' = "retag"
    /\ UNCHANGED <<kids, walk, pc, kind, src, wret, redecl, note, pos, hdr, res>>

\* let header = BoxHeader::read(&mut reader)
ReadHeader ==
    /\ pc = "written"
    /\ LET h == BoxHeaderRead(buf, NewReader(0))
       IN /\ h.r.ok
          /\ hdr' = [name |-> h.name, size |-> h.size]
          /\ pos' = h.r.pos
    /\ pc' = "ready"
    /\ UNCHANGED <<kids, walk, kind, src, buf, wret, craft, redecl, note, res>>

\* let dst_box = XBox::read_box(&mut reader, header.size)
Return(k, result) ==
    /\ pc = "ready"
    /\ kind = k
    /\ res' = result
    /\ pc' = "done"
    /\ UNCHANGED <<kids, walk, kind, src, buf, wret, craft, redecl, note, pos, hdr>>

ReadHev1 == Return("hev1", Hev1ReadBox(buf, pos, hdr.size))
ReadHvcC == Return("hvcC", HvcCReadBox(buf, pos, hdr.size))
ReadOpus == Return("Opus", OpusReadBox(buf, pos, hdr.size))
ReadDops == Return("dOps", DopsReadBox(buf, pos, hdr.size))
ReadTfdt == Return("tfdt", TfdtReadBox(buf, pos, hdr.size))

\* TrakBox::read_box(&mut reader, header.size), up to the head of the loop.
TrakBegin ==
    /\ pc = "ready"
    /\ kind = "trak"
    /\ walk' = TrakEnter(pos, hdr.size)
    /\ pc' = "walk"
    /\ UNCHANGED <<kids, kind, src, buf, wret, craft, redecl, note, pos, hdr, res>>

\* One iteration of the loop; an error returns from read_box.
TrakIter ==
    /\ pc = "walk"
    /\ walk.current < walk.end
    /\ walk' = TrakIterate(buf, walk)
    /\ pc' = IF walk'.r.ok THEN "walk" ELSE "done"
    /\ res' = IF walk'.r.ok THEN res ELSE TrakFinish(walk')
    /\ UNCHANGED <<kids, kind, src, buf, wret, craft, redecl, note, pos, hdr>>

\* The loop is left and read_box returns.
TrakEnd ==
    /\ pc = "walk"
    /\ ~(walk.current < walk.end)
    /\ res' = TrakFinish(walk)
    /\ pc' = "done"
    /\ UNCHANGED <<kids, walk, kind, src, buf, wret, craft, redecl, note, pos, hdr>>

Next ==
    \/ WriteHev1 \/ WriteHvcC \/ WriteOpus \/ WriteDops \/ WriteTfdt \/ WriteTrak
    \/ LayoutHvcC \/ WrapHev1 \/ LayoutTrak
    \/ Redeclare \/ Retag \/ Resize \/ Truncate
    \/ ReadHeader
    \/ ReadHev1 \/ ReadHvcC \/ ReadOpus \/ ReadDops \/ ReadTfdt
    \/ TrakBegin \/ TrakIter \/ TrakEnd

Spec == Init /\ [][Next]_vars

(***************************************************************************)
(* Properties.                                                             *)
(***************************************************************************)
\* The stream is exactly what write_box appended.
Pristine == craft = "written" /\ ~redecl

\* box_size() of the box the stream was written from.
SrcBoxSize ==
    CASE kind = "hev1" -> Hev1GetSize(src[1])
      [] kind = "hvcC" -> HvcCBoxSize(src[1])
      [] kind = "Opus" -> OpusGetSize(src[1])
      [] kind = "dOps" -> DopsBoxSize(src[1])
      [] kind = "tfdt" -> TfdtGetSize(src[1])
      [] kind = "trak" -> TrakGetSize(src[1])

\* The sum over the NAL units of an array of 2 + payload length.
RECURSIVE PayloadSum(_, _)
PayloadSum(nals, k) ==
    IF k = 0 THEN 0 ELSE 2 + Len(nals[k].bytes) + PayloadSum(nals, k - 1)

AllPayloadSum(h) ==
    PayloadSum(h.video_parameter_sets, Len(h.video_parameter_sets))
    + PayloadSum(h.sequence_parameter_sets, Len(h.sequence_parameter_sets))
    + PayloadSum(h.picture_parameter_sets, Len(h.picture_parameter_sets))

\* C1 (as claimed): an Hev1Box written by write_box and read back by
\* BoxHeader::read and read_box with the header's size is returned equal to
\* the box written, in every field.
C1_Hev1RoundTrip ==
    (pc = "done" /\ kind = "hev1" /\ Pristine) => (res.ok /\ res.val = src)

\* C2: write_box appends exactly box_size() bytes, returns box_size(), and
\* the header it emits carries box_size() in its size field; for Hev1Box
\* that is HEADER_SIZE + 8 + 70 + (HEADER_SIZE + 32 + the sum over all NAL
\* units of 2 + payload length).
C2_SizeAgreement ==
    (pc # "idle" /\ Pristine) =>
        /\ Len(buf) = SrcBoxSize
        /\ wret = SrcBoxSize
        /\ ValueAt(buf, 0, 4) = SrcBoxSize
        /\ BoxTypeFrom(SubSeq(buf, 5, 8)) = kind
        /\ pc \in {"ready", "done"} => hdr.size = SrcBoxSize
        /\ kind = "hev1" =>
             Len(buf) = HEADER_SIZE + 8 + 70
                        + (HEADER_SIZE + 32 + AllPayloadSum(src[1].hvcc))

\* C2 witness: an Hev1Box with several NAL units of different lengths in
\* each array has been written and its header read back.
C2_Witness ==
    /\ pc = "ready" /\ kind = "hev1" /\ Pristine
    /\ Len(src[1].hvcc.video_parameter_sets) >= 2
    /\ Len(src[1].hvcc.sequence_parameter_sets) >= 2
    /\ Len(src[1].hvcc.picture_parameter_sets) >= 1
    /\ AllPayloadSum(src[1].hvcc) > 12

\* C8: an OpusBox without channel-mapping table, and a TfdtBox with flags
\* below 2^24, written by write_box and read back by BoxHeader::read and
\* read_box with the header's size, is returned equal in every field.
C8_OpusTfdtRoundTrip ==
    (/\ pc = "done" /\ Pristine
     /\ \/ kind = "Opus" /\ src[1].dops.channel_mapping_table = <<>>
        \/ kind = "tfdt" /\ src[1].flags < 16777216)
    => (res.ok /\ res.val = src)

\* C8 witness: an OpusBox with a negative output gain, no channel-mapping
\* table and values that fill their fields has been read back.
C8_Witness ==
    /\ pc = "done" /\ Pristine /\ kind = "Opus" /\ res.ok
    /\ src[1].dops.channel_mapping_table = <<>>
    /\ src[1].dops.output_gain = -32768
    /\ src[1].data_reference_index = 65535

\* C9 (as claimed): write_box serialises a TfdtBox to exactly 20 bytes.
C9_TfdtIs20Bytes ==
    (pc # "idle" /\ Pristine /\ kind = "tfdt") => Len(buf) = 20

\* C9 (amended): write_box serialises every TfdtBox to exactly 16 bytes: an
\* 8-byte header (size 16, tag tfdt), a 4-byte version/flags extension and
\* the 4-byte big-endian base_media_decode_time; it returns 16.
C9_TfdtIs16Bytes ==
    (pc # "idle" /\ Pristine /\ kind = "tfdt") =>
        /\ Len(buf) = 16
        /\ wret = 16
        /\ SubSeq(buf, 1, 8) = <<0, 0, 0, 16>> \o TagBytes["tfdt"]
        /\ buf[9] = src[1].version
        /\ FromBE(SubSeq(buf, 10, 12)) = src[1].flags % 16777216
        /\ FromBE(SubSeq(buf, 13, 16)) = src[1].base_media_decode_time

\* C9 witness: the TfdtBox with base_media_decode_time = 6000 was written.
C9_Witness ==
    /\ pc = "written" /\ Pristine /\ kind = "tfdt"
    /\ src[1].base_media_decode_time = 6000
    /\ src[1].version = 0 /\ src[1].flags = 0

\* The position of the header of the box handed to read_box, and the end
\* of the region that header declares.
RegionStart == pos - HEADER_SIZE
RegionEnd == RegionStart + hdr.size

\* C3: whenever read_box returns success, called just after an 8-byte box
\* header with that header's declared size, the stream position is
\* box_start + declared_size.
C3_CursorAtRegionEnd ==
    (pc = "done" /\ res.ok) => res.pos = RegionEnd

\* C3 witness: a sample entry whose header declares fewer bytes than
\* read_box interprets was read with success.
C3_Witness ==
    /\ pc = "done" /\ res.ok /\ kind = "Opus" /\ redecl
    /\ res.hw > RegionEnd
    /\ res.pos = RegionEnd

\* C4 (as claimed): during read_box of a leaf box the stream position never
\* goes beyond box_start + declared_size and is never moved backward.
C4_NoOverRead ==
    (pc = "done" /\ kind \in {"tfdt", "dOps", "hvcC", "Opus", "hev1"}) =>
        (res.hw <= RegionEnd /\ ~res.back)

\* C5 (as claimed): a sample entry whose nested box header carries another
\* tag than the codec-configuration tag makes read_box return an error.
C5_TypeMismatchFails ==
    (pc = "done" /\ craft = "retag") => ~res.ok

\* The hvcC value in the result of read_box.
ParsedHvcC == IF kind = "hev1" THEN res.val[1].hvcc ELSE res.val[1]

\* C10: HvcCBox::read_box reads as many sequence-parameter sets as the low
\* 5 bits of the count byte say (count byte mod 32), and as many video- and
\* picture-parameter sets as their count bytes say, unmasked.
C10_CountMasking ==
    (pc = "done" /\ craft = "layout" /\ kind \in {"hvcC", "hev1"}) =>
        /\ ~redecl => res.ok
        /\ res.ok =>
             /\ Len(ParsedHvcC.video_parameter_sets) = note.cv
             /\ Len(ParsedHvcC.sequence_parameter_sets)
                  = (32 * note.hi + note.ns) % 32
             /\ Len(ParsedHvcC.picture_parameter_sets) = note.cp
             /\ \A n \in 1..note.ns :
                  Len(ParsedHvcC.sequence_parameter_sets[n].bytes) = note.len

\* C10 witness: a stream whose sequence-parameter-set count byte is 0xE3
\* was read, and 3 sets were returned.
C10_Witness ==
    /\ pc = "done" /\ craft = "layout" /\ kind = "hvcC" /\ res.ok
    /\ 32 * note.hi + note.ns = 227
    /\ buf[HEADER_SIZE + 23 + 1 + note.cv * (2 + note.len) + 1] = 227
    /\ Len(res.val[1].sequence_parameter_sets) = 3

\* A child header with this tag was read in the loop of TrakBox::read_box.
Seen(tag) == \E i \in 1..Len(walk.trace) : walk.trace[i].name = tag

\* C6: when TrakBox::read_box walks its child region without I/O error, it
\* returns BoxNotFound(TkhdBox) if no tkhd child was met, BoxNotFound(MdiaBox)
\* if a tkhd but no mdia child was met, success only if both were met; a
\* missing edts child is no error and yields edts = None.
C6_MissingChild ==
    (pc = "done" /\ kind = "trak" /\ res.err # "io") =>
        /\ (craft = "layout" /\ ~redecl) =>
              \A t \in TrakTags :
                 Seen(t) <=> \E i \in 1..Len(kids) : kids[i].tag = t
        /\ ~Seen("tkhd") => (~res.ok /\ res.err = "BoxNotFound(TkhdBox)")
        /\ (Seen("tkhd") /\ ~Seen("mdia")) =>
              (~res.ok /\ res.err = "BoxNotFound(MdiaBox)")
        /\ res.ok <=> (Seen("tkhd") /\ Seen("mdia"))
        /\ (res.ok /\ ~Seen("edts")) => res.val[1].edts = <<>>
        /\ (res.ok /\ Seen("edts")) => Len(res.val[1].edts) = 1

\* C6 witness: a region with a tkhd child and another child, but no mdia
\* child, was walked to its end.
C6_Witness ==
    /\ pc = "done" /\ kind = "trak" /\ ~redecl
    /\ Len(kids) >= 2 /\ Seen("tkhd") /\ ~Seen("mdia")
    /\ res.err = "BoxNotFound(MdiaBox)"

Recognised == {"tkhd", "edts", "mdia"}

\* The places of the children with a tag the track box does not model that
\* stand between two children it models.
UnknownBetween ==
    { i \in 2..(Len(kids) - 1) :
        /\ kids[i].tag \notin Recognised
        /\ kids[i].size >= HEADER_SIZE
        /\ kids[i - 1].tag \in Recognised
        /\ kids[i + 1].tag \in Recognised }

\* The children without the one at place i.
Without(ks, i) == [j \in 1..(Len(ks) - 1) |-> IF j < i THEN ks[j] ELSE ks[j + 1]]

\* read_box on the stream of the given children, after its header.
ReadTrakOf(ks) ==
    Only({ TrakReadBox(b, HEADER_SIZE, ValueAt(b, 0, 4)) : b \in {TrakStream(ks)} })

\* C7: a child with an unmodelled tag between two modelled children is
\* skipped: the cursor goes to its header start + declared size, no byte of
\* its body is read, and read_box returns what it returns for the region
\* without that child (success when tkhd and mdia are among the others).
C7_UnknownChildSkipped ==
    (pc = "done" /\ kind = "trak" /\ craft = "layout" /\ ~redecl) =>
        \A i \in UnknownBetween :
            /\ Len(walk.trace) = Len(kids)
            /\ walk.trace[i].name = kids[i].tag
            /\ walk.trace[i].after = walk.trace[i].at + kids[i].size
            /\ walk.trace[i].rd = walk.trace[i].at + HEADER_SIZE
            /\ LET other == ReadTrakOf(Without(kids, i))
               IN /\ res.ok = other.ok
                  /\ res.err = other.err
                  /\ res.val = other.val
            /\ ({"tkhd", "mdia"} \subseteq { kids[j].tag : j \in 1..Len(kids) })
                 => res.ok

\* C7 witness: the region tkhd, udta (with a body), mdia was read with
\* success.
C7_Witness ==
    /\ pc = "done" /\ kind = "trak" /\ craft = "layout" /\ ~redecl /\ res.ok
    /\ UnknownBetween # {}
    /\ \E i \in UnknownBetween : Len(kids[i].body) > 0
    /\ kids[1].tag = "tkhd"


\* C11 (as claimed): every iteration of the loop of TrakBox::read_box that
\* read or skipped a child left the cursor strictly beyond the start of that
\* child's header, whatever size the header declares; so the walk ends.
C11_IterationAdvances ==
    \A i \in 1..Len(walk.trace) : walk.trace[i].after > walk.trace[i].at

\* C12 (as claimed): when a child header read in the loop declares a size
\* that reaches beyond the end of the trak region, TrakBox::read_box returns
\* an error.
C12_ParentBoundary ==
    (/\ pc = "done" /\ kind = "trak"
     /\ \E i \in 1..Len(walk.trace) :
          walk.trace[i].at + walk.trace[i].size > walk.end)
        => ~res.ok

\* C13 (as claimed): when the stream ends before the payload bytes that a
\* NAL unit's length prefix announces, HvcCBox::read_box and Hev1Box::read_box
\* return an I/O error.
C13_TruncatedNalFails ==
    (pc = "done" /\ craft = "truncated") => (~res.ok /\ res.err = "io")

\* The 61 bytes of the appendix, byte by byte: udta header (size 61), meta
\* header (size 53), version/flags, hdlr box (size 33: header, version/flags,
\* "mhlr", "mdir", 12 zeros, the empty name's terminator), ilst header.
Appendix ==
    <<0, 0, 0, 61, 117, 100, 116, 97>>
    \o <<0, 0, 0, 53, 109, 101, 116, 97>>
    \o <<0, 0, 0, 0>>
    \o <<0, 0, 0, 33, 104, 100, 108, 114>>
    \o <<0, 0, 0, 0>>
    \o <<109, 104, 108, 114>> \o <<109, 100, 105, 114>>
    \o <<0, 0, 0, 0, 0, 0, 0, 0, 0, 0, 0, 0>> \o <<0>>
    \o <<0, 0, 0, 8, 105, 108, 115, 116>>

\* C14: TrakBox::write_box emits the trak header, the tkhd child, the edts
\* child only if there is one, the mdia child, and then the same 61 bytes
\* for every TrakBox; it emits and returns box_size() = HEADER_SIZE + tkhd
\* size + edts size (if any) + mdia size + 61 bytes, which is also the
\* header's size field, and the udta and meta size fields (61 and 53) are
\* the numbers of bytes from their headers to the end.
C14_TrakWriteLayout ==
    (pc # "idle" /\ Pristine /\ kind = "trak") =>
        LET b == src[1]
            t == 8 + Len(b.tkhd.body)
            e == IF b.edts = <<>> THEN 0 ELSE 8 + Len(b.edts[1].body)
            m == 8 + Len(b.mdia.body)
            total == 8 + t + e + m + 61
        IN /\ Len(buf) = total
           /\ wret = total
           /\ SubSeq(buf, 1, 8) = BE(total, 4) \o <<116, 114, 97, 107>>
           /\ SubSeq(buf, 9, 8 + t)
                = BE(t, 4) \o <<116, 107, 104, 100>> \o b.tkhd.body
           /\ e > 0 => SubSeq(buf, 9 + t, 8 + t + e)
                         = BE(e, 4) \o <<101, 100, 116, 115>> \o b.edts[1].body
           /\ SubSeq(buf, 9 + t + e, 8 + t + e + m)
                = BE(m, 4) \o <<109, 100, 105, 97>> \o b.mdia.body
           /\ SubSeq(buf, 9 + t + e + m, Len(buf)) = Appendix
           /\ Len(Appendix) = 61
           /\ ValueAt(buf, 8 + t + e + m, 4) = Len(buf) - (8 + t + e + m)
           /\ ValueAt(buf, 16 + t + e + m, 4) = Len(buf) - (16 + t + e + m)

\* C14 witness: a TrakBox with an edit-list child and children of different
\* sizes has been written.
C14_Witness ==
    /\ pc = "written" /\ Pristine /\ kind = "trak"
    /\ src[1].edts # <<>>
    /\ Len(src[1].edts[1].body) = 1
    /\ Len(src[1].tkhd.body) = MaxBody
    /\ Len(src[1].mdia.body) = 0
    /\ Len(buf) = 8 + (8 + MaxBody) + 9 + 8 + 61

=============================================================================
